---- MODULE Spec2Model ----
(***************************************************************************)
(* The external-computation bridge of eFlood (src-tauri/src/lib.rs): the   *)
(* backend locator, the argument encoders of the commands, the process     *)
(* invoker execute_python_script, the result envelope PythonResult, the    *)
(* temp-file commands and the interactive export commands.                 *)
(*                                                                         *)
(* Conventions.  A Rust String is a TLA+ string.  An Option<T> is a        *)
(* sequence of length 0 (None) or 1 (Some(x)).  A filesystem path is the   *)
(* sequence of its components below the root; ".." is kept as a component  *)
(* until the operating system resolves it (Resolve).  A byte buffer read   *)
(* from the child is a sequence of chunks, each valid UTF-8 text or the    *)
(* marker InvalidByte.                                                     *)
(***************************************************************************)
EXTENDS Integers, Sequences, FiniteSets, TLC

VARIABLES
    cwd,        \* the process's working directory (std::env::current_dir)
    disk,       \* the resolved paths that exist: backend directories, scripts
    tempFiles,  \* temp file name -> Option<content>, files of the working dir
    calls       \* slot -> the command call running (or last run) in that slot

vars == <<cwd, disk, tempFiles, calls>>

-----------------------------------------------------------------------------
(* Bounds of the model *)

\* At most this many backend scripts are missing from the backend directories.
MaxMissing == 1

-----------------------------------------------------------------------------
(* Option<T> *)

None == <<>>
Some(x) == <<x>>
IsSome(o) == Len(o) = 1
IsNone(o) == Len(o) = 0
Unwrap(o) == o[1]

\* Option::unwrap_or / unwrap_or_else
UnwrapOr(o, default) == IF IsSome(o) THEN Unwrap(o) ELSE default

-----------------------------------------------------------------------------
(* Program constants *)

HECRAS_PROCESSOR_SCRIPT == <<"HECRAS-HDF", "hecras_processor.py">>
NULL_ARG == "null"

\* The message of a cancelled export dialog.
CancelMessage == "Exportación cancelada por el usuario"

TempPoints == "temp_points.json"
TempAxis == "temp_axis.json"
TempFileNames == {TempPoints, TempAxis}

\* The scripts the commands name, as relative paths.
ScriptNames ==
    { <<"hdf_reader.py">>, <<"manning_extractor.py">>, <<"raster_converter.py">>,
      <<"geometry_tools.py">>, <<"hydraulic_calc.py">>, <<"hdf_data_extractor.py">>,
      HECRAS_PROCESSOR_SCRIPT, <<"enhanced_boundary_conditions_reader.py">>,
      <<"hydrograph_exporter.py">> }

-----------------------------------------------------------------------------
(* Conversions *)

DigitChars == <<"0", "1", "2", "3", "4", "5", "6", "7", "8", "9">>

RECURSIVE NatToString(_)
NatToString(n) ==
    IF n < 10 THEN DigitChars[n + 1]
    ELSE NatToString(n \div 10) \o DigitChars[(n % 10) + 1]

\* i32::to_string
I32ToString(n) == IF n < 0 THEN "-" \o NatToString(-n) ELSE NatToString(n)

\* f64::to_string of a value given in tenths (20 is 2.0, 15 is 1.5): the
\* shortest decimal form, without a fraction when the value is integral.
F64ToString(tenths) ==
    LET mag == IF tenths < 0 THEN -tenths ELSE tenths
        sign == IF tenths < 0 THEN "-" ELSE ""
    IN  IF mag % 10 = 0 THEN sign \o NatToString(mag \div 10)
        ELSE sign \o NatToString(mag \div 10) \o "." \o DigitChars[(mag % 10) + 1]

InvalidByte == "<0xFF>"
ReplacementChar == "<U+FFFD>"

\* String::from_utf8_lossy(..).to_string(): invalid sequences are replaced.
RECURSIVE FromUtf8Lossy(_)
FromUtf8Lossy(bytes) ==
    IF bytes = <<>> THEN ""
    ELSE (IF Head(bytes) = InvalidByte THEN ReplacementChar ELSE Head(bytes))
         \o FromUtf8Lossy(Tail(bytes))

-----------------------------------------------------------------------------
(* Paths *)

\* Path::join with a relative path
Join(p, rel) == p \o rel

\* Path::parent: None for the root
Parent(p) == IF p = <<>> THEN None ELSE Some(SubSeq(p, 1, Len(p) - 1))

\* What the operating system makes of a path: ".." steps up, the root's
\* parent is the root.
RECURSIVE Resolve(_)
Resolve(p) ==
    IF p = <<>> THEN <<>>
    ELSE LET front == Resolve(SubSeq(p, 1, Len(p) - 1))
             last == p[Len(p)]
         IN  IF last = ".."
             THEN (IF front = <<>> THEN <<>> ELSE SubSeq(front, 1, Len(front) - 1))
             ELSE Append(front, last)

\* Path::exists
Exists(p) == Resolve(p) \in disk

RECURSIVE PathToString(_)
PathToString(p) ==
    IF p = <<>> THEN "" ELSE "/" \o Head(p) \o PathToString(Tail(p))

\* The {:?} form of a path
DebugPath(p) == "\"" \o (IF p = <<>> THEN "/" ELSE PathToString(p)) \o "\""

-----------------------------------------------------------------------------
(* Result envelope *)

\* struct PythonResult
PythonResult(success, data, error) ==
    [success |-> success, data |-> data, error |-> error]

create_error_result(error_message) ==
    PythonResult(FALSE, None, Some(error_message))

terrain_arg_or_null(terrain_file_path) == UnwrapOr(terrain_file_path, NULL_ARG)

\* Result<PythonResult, String>, what a command hands back to its caller
Ok(result) == [ok |-> Some(result), err |-> None]
Err(message) == [ok |-> None, err |-> Some(message)]

-----------------------------------------------------------------------------
(* Backend locator and process invoker: execute_python_script *)

SrcPython == <<"src-python">>

\* LocateBackend with the parent's directory tried first.
LocateBackend_parent_first(current_dir) ==
    IF /\ IsSome(Parent(current_dir))
       /\ Exists(Join(Unwrap(Parent(current_dir)), SrcPython))
    THEN Join(Unwrap(Parent(current_dir)), SrcPython)
    ELSE IF Exists(Join(current_dir, SrcPython))
         THEN Join(current_dir, SrcPython)
         ELSE Join(current_dir, <<"..", "src-python">>)

\* The first half of execute_python_script: the backend directory.
LocateBackend(current_dir) ==
    IF Exists(Join(current_dir, SrcPython))
    THEN Join(current_dir, SrcPython)
    ELSE IF /\ IsSome(Parent(current_dir))
            /\ Exists(Join(Unwrap(Parent(current_dir)), SrcPython))
         THEN Join(Unwrap(Parent(current_dir)), SrcPython)
         ELSE Join(current_dir, <<"..", "src-python">>)

\* What the operating system and the child do with one Command::output():
\* the spawn fails with an OS error, or the child runs and exits.
SpawnFailure(os_error) ==
    [spawn_error |-> Some(os_error), code |-> 0, stdout |-> <<>>, stderr |-> <<>>]
ChildExit(code, stdout, stderr) ==
    [spawn_error |-> None, code |-> code, stdout |-> stdout, stderr |-> stderr]

\* ClassifyOutput with the child's standard output kept on a failed exit.
ClassifyOutput_keeps_stdout(os) ==
    IF IsNone(os.spawn_error)
    THEN PythonResult(os.code = 0, Some(FromUtf8Lossy(os.stdout)),
                      IF os.code = 0 THEN None ELSE Some(FromUtf8Lossy(os.stderr)))
    ELSE PythonResult(FALSE, None,
             Some("Failed to execute Python script: " \o Unwrap(os.spawn_error)))

\* ClassifyOutput with only exit code 1 taken for a failure.
ClassifyOutput_exit_one_only(os) ==
    IF IsNone(os.spawn_error)
    THEN IF os.code # 1
         THEN PythonResult(TRUE, Some(FromUtf8Lossy(os.stdout)), None)
         ELSE PythonResult(FALSE, None, Some(FromUtf8Lossy(os.stderr)))
    ELSE PythonResult(FALSE, None,
             Some("Failed to execute Python script: " \o Unwrap(os.spawn_error)))

\* match cmd.output() { ... }
ClassifyOutput(os) ==
    IF IsNone(os.spawn_error)
    THEN IF os.code = 0
         THEN PythonResult(TRUE, Some(FromUtf8Lossy(os.stdout)), None)
         ELSE PythonResult(FALSE, None, Some(FromUtf8Lossy(os.stderr)))
    ELSE PythonResult(FALSE, None,
             Some("Failed to execute Python script: " \o Unwrap(os.spawn_error)))

\* The Command built for the child
UvCommand(backend_path, script_path, args) ==
    [program |-> "uv",
     argv |-> <<"run", "python", PathToString(script_path)>> \o args,
     current_dir |-> backend_path]

\* What a call of execute_python_script did: the envelope it returned, the
\* paths it resolved and the command it spawned.
ExecTrace(script_name, args, backend_path, script_path, result, spawn) ==
    [result |-> result, script_name |-> script_name, args |-> args,
     backend_path |-> backend_path, script_path |-> script_path, spawn |-> spawn]

\* ExecutePythonScript without the check that the script exists.
ExecutePythonScript_no_script_check(script_name, args, os) ==
    LET backend_path == LocateBackend(cwd)
        script_path == Join(backend_path, script_name)
        trace(result, spawn) ==
            ExecTrace(script_name, args, backend_path, script_path, result, spawn)
    IN  IF ~Exists(backend_path)
        THEN trace(PythonResult(FALSE, None,
                       Some("Python backend directory not found: "
                            \o DebugPath(backend_path))), None)
        ELSE trace(ClassifyOutput(os),
                   Some(UvCommand(backend_path, script_path, args)))

\* execute_python_script(script_name, args), with `os` the outcome of the
\* spawn should it come to one.
ExecutePythonScript(script_name, args, os) ==
    LET backend_path == LocateBackend(cwd)
        script_path == Join(backend_path, script_name)
        trace(result, spawn) ==
            ExecTrace(script_name, args, backend_path, script_path, result, spawn)
    IN  IF ~Exists(backend_path)
        THEN trace(PythonResult(FALSE, None,
                       Some("Python backend directory not found: "
                            \o DebugPath(backend_path))), None)
        ELSE IF ~Exists(script_path)
        THEN trace(PythonResult(FALSE, None,
                       Some("Python script not found: " \o DebugPath(script_path))),
                   None)
        ELSE trace(ClassifyOutput(os),
                   Some(UvCommand(backend_path, script_path, args)))

-----------------------------------------------------------------------------
(* Inputs of the model: the values the callers, the user and the operating *)
(* system supply.                                                          *)

\* A working directory one level below the project root, and the root
\* directory, which has no parent.
WorkingDirs == { <<"proj", "src-tauri">>, <<>> }

FilePaths == {"/m.hdf"}
TerrainPaths == {"/t.tif"}
CellIds == {7}
OutputDirs == {"/out"}
ExportTypes == {"last_timestep"}
\* "vtk_info" is an operation process_pyhmt2d has no branch for.
Operations ==
    {"process", "hydrograph", "depth_map", "profile", "export_vtk", "vtk_info"}
\* A dataset path, character by character.
DatasetPaths == { <<"/", "R", " ", "d">> }
PointsJson == {"[[0,0],[1,1]]", "[[2,2],[3,3]]"}
AxisJson == {"[[0,0],[9,9]]"}
SavePaths == {"/home/u/export.dat"}
FolderPaths == {"/home/u/vtk"}
BoundaryConditionLists == {<<>>, <<"BC1", "BC2">>}
\* f64 values in tenths
Velocities == {20}
Depths == {15}
Discharges == {105}
Slopes == {1}
ManningNs == {3}
Widths == {50}
Spacings == {25}
D50s == {2}

Opt(S) == {None} \cup {Some(x) : x \in S}

\* What a spawn can come to.
OsOutcomes ==
    { ChildExit(0, <<"{\"froude\":1.63}", InvalidByte>>, <<"warning">>),
      ChildExit(1, <<"partial output">>, <<"Traceback", InvalidByte>>),
      ChildExit(2, <<>>, <<>>),
      SpawnFailure("program not found") }

-----------------------------------------------------------------------------
(* The filesystem around the process *)

\* The directories the locator of a process in `dir` can come to.
CandidateDirs(dir) ==
    { Resolve(Join(dir, SrcPython)), Resolve(Join(dir, <<"..", "src-python">>)) }

IsPrefix(d, p) == Len(d) <= Len(p) /\ SubSeq(p, 1, Len(d)) = d

Installed(d) == {d} \cup { Join(d, s) : s \in ScriptNames }

MissingScripts ==
    { <<d, s>> \in (disk \cap CandidateDirs(cwd)) \X ScriptNames : Join(d, s) \notin disk }

\* The environment changes the disk before a call reads it.  A change after
\* the call has read the disk commutes with the call's remaining steps, which
\* do not read it, and is taken once the response is delivered.
EnvMayAct == \A c \in DOMAIN calls : calls[c].pc \notin {"invoked", "returned"}

EnvInstallBackend ==
    /\ EnvMayAct
    /\ \E d \in CandidateDirs(cwd) \ disk : disk' = disk \cup Installed(d)
    /\ UNCHANGED <<cwd, tempFiles, calls>>

EnvRemoveBackend ==
    /\ EnvMayAct
    /\ \E d \in CandidateDirs(cwd) \cap disk :
          disk' = { p \in disk : ~IsPrefix(d, p) }
    /\ UNCHANGED <<cwd, tempFiles, calls>>

EnvRemoveScript ==
    /\ EnvMayAct
    /\ Cardinality(MissingScripts) < MaxMissing
    /\ \E d \in CandidateDirs(cwd) \cap disk : \E s \in ScriptNames :
          /\ Join(d, s) \in disk
          /\ disk' = disk \ {Join(d, s)}
    /\ UNCHANGED <<cwd, tempFiles, calls>>

EnvRestoreScript ==
    /\ EnvMayAct
    /\ \E m \in MissingScripts : disk' = disk \cup {Join(m[1], m[2])}
    /\ UNCHANGED <<cwd, tempFiles, calls>>

-----------------------------------------------------------------------------
(* Calls *)

Slots == {"call_1", "call_2"}
MainSlot == "call_1"

\* A slot with no call in it.  pc is the position of the call; req its
\* parameters; dialog_request and dialog the dialog shown and its answer;
\* write and remove the outcome of the temp-file write and removal; seen the
\* temp file's content when the backend was invoked; exec what
\* execute_python_script did; os the outcome of the spawn; response what the
\* command returned.
IdleCall ==
    [pc |-> "idle", cmd |-> "none", req |-> [none |-> TRUE],
     dialog_request |-> None, dialog |-> None, write |-> None, seen |-> None,
     exec |-> None, os |-> None, remove |-> None, response |-> None]

InFlight(c) == calls[c].pc \notin {"idle", "returned"}

\* A slot takes a new call when it is free.
CanBegin(c) == calls[c].pc = "idle"

\* The fields a call to execute_python_script fills.
Executed(call, script_name, args, os) ==
    LET t == ExecutePythonScript(script_name, args, os)
    IN  [call EXCEPT !.exec = Some(t),
                     !.os = IF IsSome(t.spawn) THEN Some(os) ELSE None]

\* A command whose body is execute_python_script(script_name, args) and
\* Ok(result).
Dispatch(c, cmd, req, script_name, args) ==
    /\ CanBegin(c)
    /\ \E os \in OsOutcomes :
          LET call == Executed([IdleCall EXCEPT !.cmd = cmd, !.req = req],
                               script_name, args, os)
          IN  calls' = [calls EXCEPT ![c] =
                          [call EXCEPT !.pc = "returned",
                                       !.response = Some(Ok(Unwrap(call.exec).result))]]
    /\ UNCHANGED <<cwd, disk, tempFiles>>

-----------------------------------------------------------------------------
(* Commands that encode their parameters and dispatch *)

read_hdf_file_info(c) ==
    \E file_path \in FilePaths :
        Dispatch(c, "read_hdf_file_info", [file_path |-> file_path],
                 <<"hdf_reader.py">>, <<file_path, "info">>)

read_hdf_file_structure(c) ==
    \E file_path \in FilePaths :
        Dispatch(c, "read_hdf_file_structure", [file_path |-> file_path],
                 <<"hdf_reader.py">>, <<file_path, "structure">>)

find_hydraulic_datasets(c) ==
    \E file_path \in FilePaths :
        Dispatch(c, "find_hydraulic_datasets", [file_path |-> file_path],
                 <<"hdf_reader.py">>, <<file_path, "hydraulic">>)

get_detailed_hdf_metadata(c) ==
    \E file_path \in FilePaths :
        Dispatch(c, "get_detailed_hdf_metadata", [file_path |-> file_path],
                 <<"hdf_reader.py">>, <<file_path, "metadata">>)

\* extract_manning_values_args with the terrain path forwarded as the other
\* commands forward it.
extract_manning_values_args_with_terrain(hdf_file_path, terrain_file_path) ==
    <<hdf_file_path, terrain_arg_or_null(terrain_file_path)>>

\* vec![hdf_file_path]: _terrain_file_path is not used
extract_manning_values_args(hdf_file_path, terrain_file_path) == <<hdf_file_path>>

extract_manning_values(c) ==
    \E hdf_file_path \in FilePaths, terrain_file_path \in Opt(TerrainPaths) :
        Dispatch(c, "extract_manning_values",
                 [hdf_file_path |-> hdf_file_path,
                  terrain_file_path |-> terrain_file_path],
                 <<"manning_extractor.py">>,
                 extract_manning_values_args(hdf_file_path, terrain_file_path))

convert_to_raster(c) ==
    \E input_data_path \in FilePaths, output_dir \in OutputDirs :
        Dispatch(c, "convert_to_raster",
                 [input_data_path |-> input_data_path, output_dir |-> output_dir],
                 <<"raster_converter.py">>,
                 <<"convert", input_data_path, output_dir>>)

get_raster_info(c) ==
    \E raster_path \in TerrainPaths :
        Dispatch(c, "get_raster_info", [raster_path |-> raster_path],
                 <<"raster_converter.py">>, <<"info", raster_path>>)

calculate_normal_depth(c) ==
    \E discharge \in Discharges, slope \in Slopes, manning_n \in ManningNs,
       width \in Widths :
        Dispatch(c, "calculate_normal_depth",
                 [discharge |-> discharge, slope |-> slope,
                  manning_n |-> manning_n, width |-> width],
                 <<"hydraulic_calc.py">>,
                 <<"normal", F64ToString(discharge), F64ToString(slope),
                   F64ToString(manning_n), F64ToString(width)>>)

calculate_critical_depth(c) ==
    \E discharge \in Discharges, width \in Widths :
        Dispatch(c, "calculate_critical_depth",
                 [discharge |-> discharge, width |-> width],
                 <<"hydraulic_calc.py">>,
                 <<"critical", F64ToString(discharge), F64ToString(width)>>)

analyze_flow_conditions(c) ==
    \E discharge \in Discharges, depth \in Depths, velocity \in Velocities,
       slope \in Slopes, manning_n \in ManningNs, width \in Widths :
        Dispatch(c, "analyze_flow_conditions",
                 [discharge |-> discharge, depth |-> depth, velocity |-> velocity,
                  slope |-> slope, manning_n |-> manning_n, width |-> width],
                 <<"hydraulic_calc.py">>,
                 <<"analyze", F64ToString(discharge), F64ToString(depth),
                   F64ToString(velocity), F64ToString(slope),
                   F64ToString(manning_n), F64ToString(width)>>)

calculate_scour_depth(c) ==
    \E velocity \in Velocities, depth \in Depths, d50 \in D50s :
        Dispatch(c, "calculate_scour_depth",
                 [velocity |-> velocity, depth |-> depth, d50 |-> d50],
                 <<"hydraulic_calc.py">>,
                 <<"scour", F64ToString(velocity), F64ToString(depth),
                   F64ToString(d50)>>)

calculate_froude_number(c) ==
    \E velocity \in Velocities, depth \in Depths :
        Dispatch(c, "calculate_froude_number",
                 [velocity |-> velocity, depth |-> depth],
                 <<"hydraulic_calc.py">>,
                 <<"froude", F64ToString(velocity), F64ToString(depth)>>)

\* The characters of a string, put together again.
RECURSIVE Chars(_)
Chars(cs) == IF cs = <<>> THEN "" ELSE Head(cs) \o Chars(Tail(cs))

extract_hdf_dataset(c) ==
    \E file_path \in FilePaths, dataset_path \in DatasetPaths :
        Dispatch(c, "extract_hdf_dataset",
                 [file_path |-> file_path, dataset_path |-> dataset_path],
                 <<"hdf_data_extractor.py">>,
                 <<file_path, "extract", Chars(dataset_path)>>)

create_time_series_plot(c) ==
    \E file_path \in FilePaths, dataset_path \in DatasetPaths :
        Dispatch(c, "create_time_series_plot",
                 [file_path |-> file_path, dataset_path |-> dataset_path],
                 <<"hdf_data_extractor.py">>,
                 <<file_path, "plot", Chars(dataset_path)>>)

create_hydrograph(c) ==
    \E file_path \in FilePaths, dataset_path \in DatasetPaths :
        Dispatch(c, "create_hydrograph",
                 [file_path |-> file_path, dataset_path |-> dataset_path],
                 <<"hdf_data_extractor.py">>,
                 <<file_path, "hydrograph", Chars(dataset_path)>>)

\* process_pyhmt2d_args with nothing appended for an operation it has no
\* branch for.
process_pyhmt2d_args_default_bare(operation, hdfFile, cellId, outputDirectory, terrainFile) ==
    LET args == <<operation, hdfFile>>
        terrain == IF IsSome(terrainFile) THEN Unwrap(terrainFile) ELSE "null"
    IN  CASE operation = "process" -> Append(args, terrain)
          [] operation = "hydrograph" ->
                Append(Append(args,
                              IF IsSome(cellId) THEN I32ToString(Unwrap(cellId))
                              ELSE "0"),
                       terrain)
          [] operation \in {"depth_map", "profile"} -> Append(args, terrain)
          [] operation = "export_vtk" ->
                Append(Append(args,
                              IF IsSome(outputDirectory) THEN Unwrap(outputDirectory)
                              ELSE "temp"),
                       terrain)
          [] OTHER -> args

\* process_pyhmt2d_args with the sentinel "null" for an absent output
\* directory.
process_pyhmt2d_args_vtk_null_dir(operation, hdfFile, cellId, outputDirectory, terrainFile) ==
    LET args == <<operation, hdfFile>>
        terrain == IF IsSome(terrainFile) THEN Unwrap(terrainFile) ELSE "null"
    IN  CASE operation = "hydrograph" ->
                Append(Append(args,
                              IF IsSome(cellId) THEN I32ToString(Unwrap(cellId))
                              ELSE "0"),
                       terrain)
          [] operation = "export_vtk" ->
                Append(Append(args,
                              IF IsSome(outputDirectory) THEN Unwrap(outputDirectory)
                              ELSE "null"),
                       terrain)
          [] OTHER -> Append(args, terrain)

\* The argument vector process_pyhmt2d builds: match operation.as_str()
process_pyhmt2d_args(operation, hdfFile, cellId, outputDirectory, terrainFile) ==
    LET args == <<operation, hdfFile>>
        terrain == IF IsSome(terrainFile) THEN Unwrap(terrainFile) ELSE "null"
    IN  CASE operation = "process" -> Append(args, terrain)
          [] operation = "hydrograph" ->
                Append(Append(args,
                              IF IsSome(cellId) THEN I32ToString(Unwrap(cellId))
                              ELSE "0"),
                       terrain)
          [] operation \in {"depth_map", "profile"} -> Append(args, terrain)
          [] operation = "export_vtk" ->
                Append(Append(args,
                              IF IsSome(outputDirectory) THEN Unwrap(outputDirectory)
                              ELSE "temp"),
                       terrain)
          [] OTHER -> Append(args, terrain)

process_pyhmt2d(c) ==
    \E operation \in Operations, hdfFile \in FilePaths, cellId \in Opt(CellIds),
       outputDirectory \in Opt(OutputDirs), terrainFile \in Opt(TerrainPaths) :
        Dispatch(c, "process_pyhmt2d",
                 [operation |-> operation, hdfFile |-> hdfFile, cellId |-> cellId,
                  outputDirectory |-> outputDirectory, terrainFile |-> terrainFile],
                 <<"HECRAS-HDF", "hecras_processor.py">>,
                 process_pyhmt2d_args(operation, hdfFile, cellId, outputDirectory,
                                      terrainFile))

process_hec_ras_data_args(hdf_file_path, terrain_file_path) ==
    <<"process", hdf_file_path, terrain_arg_or_null(terrain_file_path)>>

process_hec_ras_data(c) ==
    \E hdf_file_path \in FilePaths, terrain_file_path \in Opt(TerrainPaths) :
        Dispatch(c, "process_hec_ras_data",
                 [hdf_file_path |-> hdf_file_path,
                  terrain_file_path |-> terrain_file_path],
                 HECRAS_PROCESSOR_SCRIPT,
                 process_hec_ras_data_args(hdf_file_path, terrain_file_path))

create_hydrograph_py_hmt2_d_args(hdf_file_path, cell_id, terrain_file_path) ==
    <<"hydrograph", hdf_file_path, I32ToString(UnwrapOr(cell_id, 0)),
      terrain_arg_or_null(terrain_file_path)>>

create_hydrograph_py_hmt2_d(c) ==
    \E hdf_file_path \in FilePaths, cell_id \in Opt(CellIds),
       terrain_file_path \in Opt(TerrainPaths) :
        Dispatch(c, "create_hydrograph_py_hmt2_d",
                 [hdf_file_path |-> hdf_file_path, cell_id |-> cell_id,
                  terrain_file_path |-> terrain_file_path],
                 HECRAS_PROCESSOR_SCRIPT,
                 create_hydrograph_py_hmt2_d_args(hdf_file_path, cell_id,
                                                  terrain_file_path))

create_depth_map_py_hmt2_d_args(hdf_file_path, terrain_file_path) ==
    <<"depth_map", hdf_file_path, terrain_arg_or_null(terrain_file_path)>>

create_depth_map_py_hmt2_d(c) ==
    \E hdf_file_path \in FilePaths, terrain_file_path \in Opt(TerrainPaths) :
        Dispatch(c, "create_depth_map_py_hmt2_d",
                 [hdf_file_path |-> hdf_file_path,
                  terrain_file_path |-> terrain_file_path],
                 HECRAS_PROCESSOR_SCRIPT,
                 create_depth_map_py_hmt2_d_args(hdf_file_path, terrain_file_path))

create_profile_py_hmt2_d_args(hdf_file_path, terrain_file_path) ==
    <<"profile", hdf_file_path, terrain_arg_or_null(terrain_file_path)>>

create_profile_py_hmt2_d(c) ==
    \E hdf_file_path \in FilePaths, terrain_file_path \in Opt(TerrainPaths) :
        Dispatch(c, "create_profile_py_hmt2_d",
                 [hdf_file_path |-> hdf_file_path,
                  terrain_file_path |-> terrain_file_path],
                 HECRAS_PROCESSOR_SCRIPT,
                 create_profile_py_hmt2_d_args(hdf_file_path, terrain_file_path))

get_vtk_export_info(c) ==
    \E hdf_file_path \in FilePaths, terrain_file_path \in Opt(TerrainPaths) :
        Dispatch(c, "get_vtk_export_info",
                 [hdf_file_path |-> hdf_file_path,
                  terrain_file_path |-> terrain_file_path],
                 HECRAS_PROCESSOR_SCRIPT,
                 <<"vtk_info", hdf_file_path, terrain_arg_or_null(terrain_file_path)>>)

extract_boundary_conditions(c) ==
    \E hdf_file_path \in FilePaths :
        Dispatch(c, "extract_boundary_conditions",
                 [hdf_file_path |-> hdf_file_path],
                 <<"enhanced_boundary_conditions_reader.py">>, <<hdf_file_path>>)

export_hydrograph_data(c) ==
    \E hdf_file_path \in FilePaths, boundary_conditions \in BoundaryConditionLists,
       output_path \in SavePaths, format \in {"csv"} :
        Dispatch(c, "export_hydrograph_data",
                 [hdf_file_path |-> hdf_file_path,
                  boundary_conditions |-> boundary_conditions,
                  output_path |-> output_path, format |-> format],
                 <<"hydrograph_exporter.py">>,
                 <<"export_hydrograph", hdf_file_path, output_path, format>>
                     \o boundary_conditions)

-----------------------------------------------------------------------------
(* Commands that pass their input through a temporary file *)

\* std::fs::write(name, content): `permitted` is the operating system's part.
write_file(files, name, content, permitted) ==
    IF permitted THEN [files EXCEPT ![name] = Some(content)] ELSE files

\* std::fs::remove_file(name): fails when the file is not there or the
\* operating system refuses.
remove_file(files, name, permitted) ==
    IF permitted /\ IsSome(files[name]) THEN [files EXCEPT ![name] = None] ELSE files

\* The OS error of a refused write, as e.to_string() gives it.
WriteErrors == {"Permission denied (os error 13)"}

\* std::fs::write(temp_file, ..).map_err(|e| e.to_string())?
TempWrite(c, cmd, req, temp_file, content) ==
    /\ CanBegin(c)
    /\ \E permitted \in BOOLEAN : \E e \in WriteErrors :
          LET call == [IdleCall EXCEPT !.cmd = cmd, !.req = req,
                                       !.write = Some(permitted)]
          IN  /\ tempFiles' = write_file(tempFiles, temp_file, content, permitted)
              /\ calls' = [calls EXCEPT ![c] =
                              IF permitted
                              THEN [call EXCEPT !.pc = "written"]
                              ELSE [call EXCEPT !.pc = "returned",
                                                !.response = Some(Err(e))]]
    /\ UNCHANGED <<cwd, disk>>

\* let result = execute_python_script("geometry_tools.py", ..)
TempInvoke(c, cmd, args) ==
    /\ calls[c].pc = "written"
    /\ calls[c].cmd = cmd
    /\ \E os \in OsOutcomes :
          LET call == Executed(calls[c], <<"geometry_tools.py">>, args, os)
          IN  calls' = [calls EXCEPT ![c] =
                           [call EXCEPT !.pc = "invoked",
                                        !.seen = Some(tempFiles[args[2]])]]
    /\ UNCHANGED <<cwd, disk, tempFiles>>

\* TempRemove with std::fs::remove_file(temp_file).map_err(|e| e.to_string())?
TempRemove_propagates_failure(c, cmd, temp_file) ==
    /\ calls[c].pc = "invoked"
    /\ calls[c].cmd = cmd
    /\ \E permitted \in BOOLEAN : \E e \in WriteErrors :
          LET removed == permitted /\ IsSome(tempFiles[temp_file])
          IN  /\ tempFiles' = remove_file(tempFiles, temp_file, permitted)
              /\ calls' = [calls EXCEPT ![c] =
                    [calls[c] EXCEPT
                        !.pc = "returned",
                        !.remove = Some(removed),
                        !.response =
                            IF removed
                            THEN Some(Ok(Unwrap(calls[c].exec).result))
                            ELSE Some(Err(e))]]
    /\ UNCHANGED <<cwd, disk>>

\* let _ = std::fs::remove_file(temp_file); Ok(result)
TempRemove(c, cmd, temp_file) ==
    /\ calls[c].pc = "invoked"
    /\ calls[c].cmd = cmd
    /\ \E permitted \in BOOLEAN :
          /\ tempFiles' = remove_file(tempFiles, temp_file, permitted)
          /\ calls' = [calls EXCEPT ![c] =
                [calls[c] EXCEPT
                    !.pc = "returned",
                    !.remove = Some(permitted /\ IsSome(tempFiles[temp_file])),
                    !.response = Some(Ok(Unwrap(calls[c].exec).result))]]
    /\ UNCHANGED <<cwd, disk>>

\* create_spline_from_points_write with the other command's file name.
create_spline_from_points_write_wrong_file(c) ==
    \E points_json \in PointsJson :
        TempWrite(c, "create_spline_from_points", [points_json |-> points_json],
                  "temp_axis.json", points_json)

create_spline_from_points_write(c) ==
    \E points_json \in PointsJson :
        TempWrite(c, "create_spline_from_points", [points_json |-> points_json],
                  "temp_points.json", points_json)

create_spline_from_points_invoke(c) ==
    TempInvoke(c, "create_spline_from_points", <<"spline", "temp_points.json">>)

create_spline_from_points_remove(c) ==
    TempRemove(c, "create_spline_from_points", "temp_points.json")

generate_cross_sections_write(c) ==
    \E axis_json \in AxisJson, spacing \in Spacings, width \in Widths :
        TempWrite(c, "generate_cross_sections",
                  [axis_json |-> axis_json, spacing |-> spacing, width |-> width],
                  "temp_axis.json", axis_json)

generate_cross_sections_invoke(c) ==
    TempInvoke(c, "generate_cross_sections",
               <<"sections", "temp_axis.json",
                 F64ToString(calls[c].req.spacing), F64ToString(calls[c].req.width)>>)

\* generate_cross_sections_remove with the other command's file name.
generate_cross_sections_remove_wrong_file(c) ==
    TempRemove(c, "generate_cross_sections", "temp_points.json")

generate_cross_sections_remove(c) ==
    TempRemove(c, "generate_cross_sections", "temp_axis.json")

-----------------------------------------------------------------------------
(* Commands that ask the user for a destination first *)

\* dataset_path.replace(['/', ' '], "_")
RECURSIVE SafeName(_)
SafeName(cs) ==
    IF cs = <<>> THEN ""
    ELSE (IF Head(cs) \in {"/", " "} THEN "_" ELSE Head(cs)) \o SafeName(Tail(cs))

\* The command up to its blocking dialog.
OpenDialog(c, cmd, req, request) ==
    /\ CanBegin(c)
    /\ calls' = [calls EXCEPT ![c] =
                    [IdleCall EXCEPT !.pc = "awaiting_dialog", !.cmd = cmd,
                                     !.req = req, !.dialog_request = Some(request)]]
    /\ UNCHANGED <<cwd, disk, tempFiles>>

\* AnswerDialog with the backend invoked on a cancelled dialog as well.
AnswerDialog_spawns_on_cancel(c, cmd, answer, script_name, args, cancelled) ==
    /\ calls[c].pc = "awaiting_dialog"
    /\ calls[c].cmd = cmd
    /\ \E os \in OsOutcomes :
          LET call == Executed(calls[c], script_name, args, os)
          IN  calls' = [calls EXCEPT ![c] =
                 [call EXCEPT !.pc = "returned", !.dialog = Some(answer),
                              !.response =
                                  Some(Ok(IF IsSome(answer)
                                          THEN Unwrap(call.exec).result
                                          ELSE cancelled))]]
    /\ UNCHANGED <<cwd, disk, tempFiles>>

\* match save_path { Some(path) => ..execute_python_script.., None => .. }
AnswerDialog(c, cmd, answer, script_name, args, cancelled) ==
    /\ calls[c].pc = "awaiting_dialog"
    /\ calls[c].cmd = cmd
    /\ IF IsSome(answer)
       THEN \E os \in OsOutcomes :
              LET call == Executed(calls[c], script_name, args, os)
              IN  calls' = [calls EXCEPT ![c] =
                     [call EXCEPT !.pc = "returned", !.dialog = Some(answer),
                                  !.response = Some(Ok(Unwrap(call.exec).result))]]
       ELSE calls' = [calls EXCEPT ![c] =
                     [calls[c] EXCEPT !.pc = "returned", !.dialog = Some(answer),
                               !.response = Some(Ok(cancelled))]]
    /\ UNCHANGED <<cwd, disk, tempFiles>>

\* export_hdf_to_csv_args with the destination ahead of the dataset.
export_hdf_to_csv_args_path_first(file_path, dataset_path, path_str) ==
    <<file_path, "export_csv", path_str, Chars(dataset_path)>>

export_hdf_to_csv_args(file_path, dataset_path, path_str) ==
    <<file_path, "export_csv", Chars(dataset_path), path_str>>

export_hdf_to_csv_cancelled ==
    PythonResult(FALSE, None, Some("Exportación cancelada por el usuario"))

export_hdf_to_csv(c) ==
    \E file_path \in FilePaths, dataset_path \in DatasetPaths :
        OpenDialog(c, "export_hdf_to_csv",
                   [file_path |-> file_path, dataset_path |-> dataset_path],
                   [kind |-> "save_file", title |-> "Guardar archivo CSV",
                    file_name |-> "hdf_export_" \o SafeName(dataset_path) \o ".csv",
                    filter |-> "csv"])

export_hdf_to_csv_answer(c) ==
    \E save_path \in Opt(SavePaths) :
        AnswerDialog(c, "export_hdf_to_csv", save_path, <<"hdf_data_extractor.py">>,
                     export_hdf_to_csv_args(calls[c].req.file_path,
                                            calls[c].req.dataset_path,
                                            UnwrapOr(save_path, "")),
                     export_hdf_to_csv_cancelled)

export_hdf_to_json_args(file_path, dataset_path, path_str) ==
    <<file_path, "export_json", Chars(dataset_path), path_str>>

export_hdf_to_json_cancelled ==
    PythonResult(FALSE, None, Some("Exportación cancelada por el usuario"))

export_hdf_to_json(c) ==
    \E file_path \in FilePaths, dataset_path \in DatasetPaths :
        OpenDialog(c, "export_hdf_to_json",
                   [file_path |-> file_path, dataset_path |-> dataset_path],
                   [kind |-> "save_file", title |-> "Guardar archivo JSON",
                    file_name |-> "hdf_export_" \o SafeName(dataset_path) \o ".json",
                    filter |-> "json"])

export_hdf_to_json_answer(c) ==
    \E save_path \in Opt(SavePaths) :
        AnswerDialog(c, "export_hdf_to_json", save_path, <<"hdf_data_extractor.py">>,
                     export_hdf_to_json_args(calls[c].req.file_path,
                                             calls[c].req.dataset_path,
                                             UnwrapOr(save_path, "")),
                     export_hdf_to_json_cancelled)

export_to_vtk_py_hmt2_d_args(hdf_file_path, path_str, terrain_file_path, export_type) ==
    <<"export_vtk", hdf_file_path, path_str, terrain_arg_or_null(terrain_file_path),
      UnwrapOr(export_type, "all_timesteps")>>

export_to_vtk_py_hmt2_d_cancelled ==
    create_error_result("Exportación cancelada por el usuario")

export_to_vtk_py_hmt2_d(c) ==
    \E hdf_file_path \in FilePaths, terrain_file_path \in Opt(TerrainPaths),
       export_type \in Opt(ExportTypes) :
        OpenDialog(c, "export_to_vtk_py_hmt2_d",
                   [hdf_file_path |-> hdf_file_path,
                    terrain_file_path |-> terrain_file_path,
                    export_type |-> export_type],
                   [kind |-> "pick_folder",
                    title |-> "Seleccionar carpeta para exportar archivos VTK",
                    file_name |-> "", filter |-> ""])

export_to_vtk_py_hmt2_d_answer(c) ==
    \E output_path \in Opt(FolderPaths) :
        AnswerDialog(c, "export_to_vtk_py_hmt2_d", output_path,
                     HECRAS_PROCESSOR_SCRIPT,
                     export_to_vtk_py_hmt2_d_args(calls[c].req.hdf_file_path,
                                                  UnwrapOr(output_path, ""),
                                                  calls[c].req.terrain_file_path,
                                                  calls[c].req.export_type),
                     export_to_vtk_py_hmt2_d_cancelled)

-----------------------------------------------------------------------------
(* The specification *)

\* The caller takes the response; the slot is free again.
Deliver(c) ==
    /\ calls[c].pc = "returned"
    /\ calls' = [calls EXCEPT ![c] = IdleCall]
    /\ UNCHANGED <<cwd, disk, tempFiles>>

Init ==
    /\ cwd \in WorkingDirs
    /\ \E dirs \in SUBSET CandidateDirs(cwd) :
          disk = UNION { Installed(d) : d \in dirs }
    /\ tempFiles = [n \in TempFileNames |-> None]
    /\ calls = [c \in Slots |-> IdleCall]

Command(c) ==
    \/ read_hdf_file_info(c)
    \/ read_hdf_file_structure(c)
    \/ find_hydraulic_datasets(c)
    \/ get_detailed_hdf_metadata(c)
    \/ extract_manning_values(c)
    \/ convert_to_raster(c)
    \/ get_raster_info(c)
    \/ create_spline_from_points_write(c)
    \/ create_spline_from_points_invoke(c)
    \/ create_spline_from_points_remove(c)
    \/ generate_cross_sections_write(c)
    \/ generate_cross_sections_invoke(c)
    \/ generate_cross_sections_remove(c)
    \/ calculate_normal_depth(c)
    \/ calculate_critical_depth(c)
    \/ analyze_flow_conditions(c)
    \/ calculate_scour_depth(c)
    \/ calculate_froude_number(c)
    \/ extract_hdf_dataset(c)
    \/ create_time_series_plot(c)
    \/ create_hydrograph(c)
    \/ export_hdf_to_csv(c)
    \/ export_hdf_to_csv_answer(c)
    \/ export_hdf_to_json(c)
    \/ export_hdf_to_json_answer(c)
    \/ process_pyhmt2d(c)
    \/ process_hec_ras_data(c)
    \/ create_hydrograph_py_hmt2_d(c)
    \/ create_depth_map_py_hmt2_d(c)
    \/ create_profile_py_hmt2_d(c)
    \/ export_to_vtk_py_hmt2_d(c)
    \/ export_to_vtk_py_hmt2_d_answer(c)
    \/ get_vtk_export_info(c)
    \/ extract_boundary_conditions(c)
    \/ export_hydrograph_data(c)
    \/ Deliver(c)

Environment ==
    \/ EnvInstallBackend
    \/ EnvRemoveBackend
    \/ EnvRemoveScript
    \/ EnvRestoreScript

\* The commands issued one at a time.
Next == Environment \/ Command(MainSlot)

Spec == Init /\ [][Next]_vars

\* The steps of the commands that pass their input through a temporary file.
TempFileCommand(c) ==
    \/ create_spline_from_points_write(c)
    \/ create_spline_from_points_invoke(c)
    \/ create_spline_from_points_remove(c)
    \/ generate_cross_sections_write(c)
    \/ generate_cross_sections_invoke(c)
    \/ generate_cross_sections_remove(c)
    \/ Deliver(c)

\* Two calls of the temp-file commands at once: each command is an async fn
\* run as a task of its own, and their steps interleave.
NextConcurrent == \E c \in Slots : TempFileCommand(c)

SpecConcurrent == Init /\ [][NextConcurrent]_vars

-----------------------------------------------------------------------------
(* Reading a call *)

HasExec(c) == IsSome(calls[c].exec)
Exec(c) == Unwrap(calls[c].exec)
Returned(c) == calls[c].pc = "returned"
Response(c) == Unwrap(calls[c].response)
ReturnedEnvelope(c) == Returned(c) /\ IsSome(Response(c).ok)
Envelope(c) == Unwrap(Response(c).ok)

ExportCommands == {"export_hdf_to_csv", "export_hdf_to_json", "export_to_vtk_py_hmt2_d"}
TempFileCommands == {"create_spline_from_points", "generate_cross_sections"}
TempFileOf(cmd) ==
    IF cmd = "create_spline_from_points" THEN TempPoints ELSE TempAxis

WellFormed(e) ==
    /\ e.success => IsSome(e.data) /\ IsNone(e.error)
    /\ ~e.success => IsSome(e.error) /\ IsNone(e.data)

-----------------------------------------------------------------------------
(* Claims *)

\* C1: every envelope a command returns, and every envelope
\* execute_python_script produces, has data present and error absent when
\* success is true, and error present and data absent when success is false.
C1_EnvelopeWellFormed ==
    \A c \in Slots :
        /\ HasExec(c) => WellFormed(Exec(c).result)
        /\ ReturnedEnvelope(c) => WellFormed(Envelope(c))

\* A command has returned a success envelope carrying the child's output.
C1_Witness ==
    \E c \in Slots :
        /\ ReturnedEnvelope(c)
        /\ Envelope(c).success
        /\ IsSome(Envelope(c).data)
        /\ IsSome(Exec(c).spawn)

\* C2: every command that has returned has returned an envelope, never the
\* out-of-band error of its Result, whatever failed on its path.
C2_AlwaysAnEnvelope ==
    \A c \in Slots : Returned(c) => IsSome(Response(c).ok)

\* C3: an export command whose dialog gave no selection ran neither the
\* locator nor the invoker (execute_python_script was not entered, no process
\* was spawned) and returned the failure envelope with the one cancellation
\* message and no data.
C3_CancelSpawnsNothing ==
    \A c \in Slots :
        (/\ Returned(c)
         /\ calls[c].cmd \in ExportCommands
         /\ calls[c].dialog = Some(None))
        => /\ ~HasExec(c)
           /\ IsNone(calls[c].os)
           /\ calls[c].response = Some(Ok(PythonResult(FALSE, None, Some(CancelMessage))))

\* The folder dialog was cancelled while no backend directory exists.
C3_Witness ==
    \E c \in Slots :
        /\ Returned(c)
        /\ calls[c].cmd = "export_to_vtk_py_hmt2_d"
        /\ calls[c].dialog = Some(None)
        /\ disk = {}
        /\ ~Envelope(c).success


\* C4 as claimed: once a create_spline_from_points or generate_cross_sections
\* call has returned, its temporary file does not exist.
C4_TempFileGone ==
    \A c \in Slots :
        (Returned(c) /\ calls[c].cmd \in TempFileCommands)
        => IsNone(tempFiles[TempFileOf(calls[c].cmd)])

\* C4, amended: a create_spline_from_points or generate_cross_sections call
\* that returns an envelope has attempted the removal of its temporary file,
\* whatever the backend invocation came to, and when that removal succeeded
\* the file does not exist at the return; a call whose write failed returns
\* without having attempted the removal.
C4_TempFileGoneWhenRemoved ==
    \A c \in Slots :
        (Returned(c) /\ calls[c].cmd \in TempFileCommands)
        => /\ IsSome(Response(c).ok) <=> IsSome(calls[c].remove)
           /\ IsSome(Response(c).ok) <=> calls[c].write = Some(TRUE)
           /\ calls[c].remove = Some(TRUE)
                 => IsNone(tempFiles[TempFileOf(calls[c].cmd)])

\* A cross-section call whose backend was never reached (no spawn) has
\* returned with its temporary file removed.
C4_Witness ==
    \E c \in Slots :
        /\ ReturnedEnvelope(c)
        /\ calls[c].cmd = "generate_cross_sections"
        /\ IsNone(Exec(c).spawn)
        /\ calls[c].remove = Some(TRUE)
        /\ IsNone(tempFiles[TempAxis])

\* C5: execute_python_script spawns only when the backend directory and the
\* script both exist; with the directory missing it returns the failure
\* "Python backend directory not found" with the attempted directory, with
\* the directory present and the script missing the failure "Python script
\* not found" with the attempted script path; the directory is checked first.
C5_NoSpawnWhenMissing ==
    \A c \in Slots :
        HasExec(c) =>
            LET t == Exec(c)
                dir_found == Resolve(t.backend_path) \in disk
                script_found == Resolve(t.backend_path \o t.script_name) \in disk
            IN  /\ t.script_path = t.backend_path \o t.script_name
                /\ IsSome(t.spawn) <=> (dir_found /\ script_found)
                /\ ~dir_found =>
                      t.result = PythonResult(FALSE, None,
                          Some("Python backend directory not found: \""
                               \o PathToString(t.backend_path) \o "\""))
                /\ (dir_found /\ ~script_found) =>
                      t.result = PythonResult(FALSE, None,
                          Some("Python script not found: \""
                               \o PathToString(t.script_path) \o "\""))

\* A call found the backend directory but not its script.
C5_Witness ==
    \E c \in Slots :
        /\ HasExec(c)
        /\ Resolve(Exec(c).backend_path) \in disk
        /\ Resolve(Exec(c).script_path) \notin disk
        /\ IsNone(Exec(c).spawn)
        /\ ~Exec(c).result.success

\* C6: when a process was spawned, exit code zero gives success with data the
\* child's standard output and no error; any other exit code gives failure
\* with error the child's standard error and no data; a failed spawn gives
\* failure with the message embedding the OS error, which is not the child's
\* standard error.
C6_ClassifiedByExit ==
    \A c \in Slots :
        (HasExec(c) /\ IsSome(Exec(c).spawn)) =>
            LET os == Unwrap(calls[c].os)
                r == Exec(c).result
            IN  /\ (IsNone(os.spawn_error) /\ os.code = 0) =>
                      r = PythonResult(TRUE, Some(FromUtf8Lossy(os.stdout)), None)
                /\ (IsNone(os.spawn_error) /\ os.code # 0) =>
                      r = PythonResult(FALSE, None, Some(FromUtf8Lossy(os.stderr)))
                /\ IsSome(os.spawn_error) =>
                      /\ r = PythonResult(FALSE, None,
                               Some("Failed to execute Python script: "
                                    \o Unwrap(os.spawn_error)))
                      /\ r.error # Some(FromUtf8Lossy(os.stderr))

\* A child exited with a code other than 0 and 1, with output on stdout.
C6_Witness ==
    \E c \in Slots :
        /\ HasExec(c)
        /\ IsSome(Exec(c).spawn)
        /\ IsNone(Unwrap(calls[c].os).spawn_error)
        /\ Unwrap(calls[c].os).code = 2
        /\ ~Exec(c).result.success
        /\ IsNone(Exec(c).result.data)

\* C7: the backend directory of a call is working_dir/src-python if that
\* exists, otherwise parent/src-python if the working directory has a parent
\* and that exists, otherwise working_dir/../src-python; it is worked out
\* from the disk as it is at the call.
C7_LocatorOrder ==
    \A c \in Slots :
        HasExec(c) =>
            LET here == cwd \o <<"src-python">>
                up == SubSeq(cwd, 1, Len(cwd) - 1) \o <<"src-python">>
            IN  Exec(c).backend_path =
                    IF here \in disk THEN here
                    ELSE IF cwd # <<>> /\ up \in disk THEN up
                    ELSE cwd \o <<"..", "src-python">>

\* Both candidate directories exist and the call took the working
\* directory's.
C7_Witness ==
    \E c \in Slots :
        /\ HasExec(c)
        /\ cwd = <<"proj", "src-tauri">>
        /\ <<"proj", "src-tauri", "src-python">> \in disk
        /\ <<"proj", "src-python">> \in disk
        /\ Exec(c).backend_path = <<"proj", "src-tauri", "src-python">>


\* The token of an optional terrain path, of an optional cell id and of an
\* optional output directory, as the claims give them.
TerrainToken(terrain) == IF terrain = None THEN "null" ELSE terrain[1]
CellToken(cell) == IF cell = None THEN "0" ELSE IF cell = Some(7) THEN "7" ELSE "?"
OutputDirToken(dir) == IF dir = None THEN "temp" ELSE dir[1]

\* C8: the tokens of the hydraulic-processing family.  Through
\* process_pyhmt2d: process, depth_map, profile and any operation without a
\* branch of its own give [operation, hdf_path, terrain or "null"], hydrograph
\* gives ["hydrograph", hdf_path, cell id or "0", terrain or "null"]; the
\* dedicated commands give the same tokens; an unrecognized operation is
\* encoded and dispatched like the others.
C8_FamilyTokens ==
    \A c \in Slots :
        LET q == calls[c].req
            cmd == calls[c].cmd
        IN  /\ (Returned(c) /\ cmd = "process_pyhmt2d") => HasExec(c)
            /\ (HasExec(c) /\ cmd = "process_pyhmt2d" /\ q.operation = "hydrograph")
                  => Exec(c).args = <<"hydrograph", q.hdfFile, CellToken(q.cellId),
                                      TerrainToken(q.terrainFile)>>
            /\ (HasExec(c) /\ cmd = "process_pyhmt2d"
                           /\ q.operation \notin {"hydrograph", "export_vtk"})
                  => Exec(c).args = <<q.operation, q.hdfFile,
                                      TerrainToken(q.terrainFile)>>
            /\ (HasExec(c) /\ cmd = "process_hec_ras_data")
                  => Exec(c).args = <<"process", q.hdf_file_path,
                                      TerrainToken(q.terrain_file_path)>>
            /\ (HasExec(c) /\ cmd = "create_hydrograph_py_hmt2_d")
                  => Exec(c).args = <<"hydrograph", q.hdf_file_path,
                                      CellToken(q.cell_id),
                                      TerrainToken(q.terrain_file_path)>>
            /\ (HasExec(c) /\ cmd = "create_depth_map_py_hmt2_d")
                  => Exec(c).args = <<"depth_map", q.hdf_file_path,
                                      TerrainToken(q.terrain_file_path)>>
            /\ (HasExec(c) /\ cmd = "create_profile_py_hmt2_d")
                  => Exec(c).args = <<"profile", q.hdf_file_path,
                                      TerrainToken(q.terrain_file_path)>>

\* process_pyhmt2d was given an operation it has no branch for, with no
\* terrain, and the child was spawned with the three tokens.
C8_Witness ==
    \E c \in Slots :
        /\ HasExec(c)
        /\ calls[c].cmd = "process_pyhmt2d"
        /\ calls[c].req.operation = "vtk_info"
        /\ calls[c].req.terrainFile = None
        /\ IsSome(calls[c].req.cellId)
        /\ IsSome(Exec(c).spawn)
        /\ Unwrap(Exec(c).spawn).argv[4] = "vtk_info"
        /\ Exec(c).args = <<"vtk_info", "/m.hdf", "null">>

\* C9 as claimed: every invocation whose first token is "export_vtk" has
\* exactly the four tokens ["export_vtk", hdf_path, output directory or
\* "temp", terrain or "null"].
C9_ExportVtkFourTokens ==
    \A c \in Slots :
        (HasExec(c) /\ Exec(c).args[1] = "export_vtk")
        => /\ Len(Exec(c).args) = 4
           /\ calls[c].cmd = "process_pyhmt2d" =>
                 Exec(c).args = <<"export_vtk", calls[c].req.hdfFile,
                                  OutputDirToken(calls[c].req.outputDirectory),
                                  TerrainToken(calls[c].req.terrainFile)>>
           /\ calls[c].cmd = "export_to_vtk_py_hmt2_d" =>
                 Exec(c).args = <<"export_vtk", calls[c].req.hdf_file_path,
                                  Unwrap(Unwrap(calls[c].dialog)),
                                  TerrainToken(calls[c].req.terrain_file_path)>>

\* C9, amended: process_pyhmt2d with operation "export_vtk" passes exactly
\* the four tokens ["export_vtk", hdf_path, output directory or "temp",
\* terrain or "null"]; export_to_vtk_py_hmt2_d, once a folder is chosen,
\* passes five: ["export_vtk", hdf_path, the chosen folder, terrain or "null",
\* export type or "all_timesteps"]; no other command passes "export_vtk".
C9_ExportVtkTokens ==
    \A c \in Slots :
        (HasExec(c) /\ Exec(c).args[1] = "export_vtk")
        => /\ calls[c].cmd \in {"process_pyhmt2d", "export_to_vtk_py_hmt2_d"}
           /\ calls[c].cmd = "process_pyhmt2d" =>
                 Exec(c).args = <<"export_vtk", calls[c].req.hdfFile,
                                  OutputDirToken(calls[c].req.outputDirectory),
                                  TerrainToken(calls[c].req.terrainFile)>>
           /\ calls[c].cmd = "export_to_vtk_py_hmt2_d" =>
                 Exec(c).args = <<"export_vtk", calls[c].req.hdf_file_path,
                                  Unwrap(Unwrap(calls[c].dialog)),
                                  TerrainToken(calls[c].req.terrain_file_path),
                                  IF calls[c].req.export_type = None
                                  THEN "all_timesteps"
                                  ELSE calls[c].req.export_type[1]>>

\* process_pyhmt2d exported with no output directory, and the child got
\* "temp".
C9_Witness ==
    \E c \in Slots :
        /\ HasExec(c)
        /\ calls[c].cmd = "process_pyhmt2d"
        /\ calls[c].req.operation = "export_vtk"
        /\ calls[c].req.outputDirectory = None
        /\ IsSome(Exec(c).spawn)
        /\ Unwrap(Exec(c).spawn).argv[6] = "temp"
        /\ Len(Exec(c).args) = 4

\* The backend of an export command runs only once its dialog has resolved
\* to a destination.
InvokedAfterDialog(c) ==
    /\ calls[c].pc = "awaiting_dialog" => ~HasExec(c) /\ IsNone(calls[c].dialog)
    /\ HasExec(c) => /\ IsSome(calls[c].dialog)
                     /\ IsSome(Unwrap(calls[c].dialog))

Destination(c) == Unwrap(Unwrap(calls[c].dialog))

\* C10 as claimed: in the three export commands the backend is invoked only
\* after the dialog has resolved, and the destination is the final token.
C10_DestinationLast ==
    \A c \in Slots :
        calls[c].cmd \in ExportCommands
        => /\ InvokedAfterDialog(c)
           /\ HasExec(c) => Exec(c).args[Len(Exec(c).args)] = Destination(c)

\* C10, amended: in the three export commands the backend is invoked only
\* after the dialog has resolved to a destination; export_hdf_to_csv and
\* export_hdf_to_json pass the destination as the final token,
\* export_to_vtk_py_hmt2_d passes the chosen folder as the third of its five
\* tokens, followed by the terrain token and the export type.
C10_DestinationToken ==
    \A c \in Slots :
        calls[c].cmd \in ExportCommands
        => /\ InvokedAfterDialog(c)
           /\ (HasExec(c) /\ calls[c].cmd # "export_to_vtk_py_hmt2_d")
                 => /\ Len(Exec(c).args) = 4
                    /\ Exec(c).args[4] = Destination(c)
           /\ (HasExec(c) /\ calls[c].cmd = "export_to_vtk_py_hmt2_d")
                 => /\ Len(Exec(c).args) = 5
                    /\ Exec(c).args[3] = Destination(c)
                    /\ Exec(c).args[4] = TerrainToken(calls[c].req.terrain_file_path)
                    /\ Exec(c).args[5] = UnwrapOr(calls[c].req.export_type,
                                                  "all_timesteps")

\* The CSV export's dialog resolved and the child was spawned with the
\* destination as its last argument.
C10_Witness ==
    \E c \in Slots :
        /\ Returned(c)
        /\ calls[c].cmd = "export_hdf_to_csv"
        /\ calls[c].dialog = Some(Some("/home/u/export.dat"))
        /\ IsSome(Exec(c).spawn)
        /\ Unwrap(Exec(c).spawn).argv[7] = "/home/u/export.dat"


\* C11: extract_manning_values passes exactly the one token [hdf_file_path],
\* to manning_extractor.py, whether its terrain path is absent or present;
\* no token and no sentinel stands for the terrain path.
C11_ManningTokens ==
    \A c \in Slots :
        (HasExec(c) /\ calls[c].cmd = "extract_manning_values")
        => /\ Exec(c).args = <<calls[c].req.hdf_file_path>>
           /\ Exec(c).script_name = <<"manning_extractor.py">>
           /\ IsSome(Exec(c).spawn) =>
                 Len(Unwrap(Exec(c).spawn).argv) = 4

\* extract_manning_values was given a terrain path and the child was spawned
\* with the HDF path as its only argument.
C11_Witness ==
    \E c \in Slots :
        /\ HasExec(c)
        /\ calls[c].cmd = "extract_manning_values"
        /\ calls[c].req.terrain_file_path = Some("/t.tif")
        /\ IsSome(Exec(c).spawn)
        /\ Unwrap(Exec(c).spawn).argv[4] = "/m.hdf"
        /\ Exec(c).args = <<"/m.hdf">>


\* The payload a temp-file call wrote.
OwnPayload(c) ==
    IF calls[c].cmd = "create_spline_from_points"
    THEN calls[c].req.points_json ELSE calls[c].req.axis_json

\* The backend of call c was spawned while its temp file was absent or held
\* a payload other than the call's own.
InvokedOnForeignFile(c) ==
    /\ calls[c].cmd \in TempFileCommands
    /\ calls[c].pc = "invoked"
    /\ IsSome(Exec(c).spawn)
    /\ calls[c].seen # Some(Some(OwnPayload(c)))

\* C12: with two calls interleaved, the temp file of a call that has written
\* it and not yet invoked the backend is changed by the other call, and only
\* by a write or a removal of the other call of the same command (the two
\* share the one fixed file name); a backend invocation that finds the file
\* absent or with another payload finds what such a step left.
C12_FixedNameRace ==
    [][\A c \in Slots :
          LET f == TempFileOf(calls[c].cmd)
          IN  (/\ calls[c].pc = "written"
               /\ calls'[c] = calls[c]
               /\ tempFiles'[f] # tempFiles[f])
              => \E d \in Slots \ {c} :
                    /\ calls'[d] # calls[d]
                    /\ calls'[d].cmd = calls[c].cmd
                    /\ \/ calls'[d].write = Some(TRUE) /\ calls'[d].pc = "written"
                                /\ tempFiles'[f] = Some(OwnPayload(d)')
                       \/ calls'[d].remove = Some(TRUE) /\ tempFiles'[f] = None]_vars

\* One create_spline_from_points call's backend was spawned while the file
\* held the payload of the other, still running, call.
C12_Witness ==
    \E c \in Slots : \E d \in Slots \ {c} :
        /\ InvokedOnForeignFile(c)
        /\ calls[c].cmd = "create_spline_from_points"
        /\ calls[d].cmd = "create_spline_from_points"
        /\ calls[d].pc = "written"
        /\ calls[d].req.points_json # calls[c].req.points_json
        /\ calls[c].seen = Some(Some(calls[d].req.points_json))

\* One generate_cross_sections call's backend was spawned after the other
\* call had removed the file.
C12_WitnessAbsent ==
    \E c \in Slots : \E d \in Slots \ {c} :
        /\ InvokedOnForeignFile(c)
        /\ calls[c].cmd = "generate_cross_sections"
        /\ calls[d].cmd = "generate_cross_sections"
        /\ calls[d].pc = "returned"
        /\ calls[d].remove = Some(TRUE)
        /\ calls[c].seen = Some(None)


\* What holds of one temp-file call at every point of it.
TempCallOrdered(c) ==
    /\ calls[c].pc \in {"written", "invoked", "returned"}
    /\ IsSome(calls[c].write)
    /\ calls[c].pc = "written" =>
          /\ calls[c].write = Some(TRUE)
          /\ ~HasExec(c)
          /\ IsNone(calls[c].remove)
          /\ tempFiles[TempFileOf(calls[c].cmd)] = Some(OwnPayload(c))
    /\ HasExec(c) =>
          /\ calls[c].write = Some(TRUE)
          /\ calls[c].seen = Some(Some(OwnPayload(c)))
          /\ Exec(c).args[2] = TempFileOf(calls[c].cmd)
    /\ calls[c].pc = "invoked" => HasExec(c) /\ IsNone(calls[c].remove)
    /\ IsSome(calls[c].remove) => HasExec(c) /\ calls[c].pc = "returned"
    /\ (calls[c].pc = "returned" /\ HasExec(c)) =>
          /\ IsSome(calls[c].remove)
          /\ calls[c].response = Some(Ok(Exec(c).result))
    /\ calls[c].write = Some(FALSE) =>
          /\ calls[c].pc = "returned"
          /\ ~HasExec(c)
          /\ IsNone(calls[c].seen)
          /\ IsNone(calls[c].remove)
          /\ IsSome(calls[c].response)
          /\ IsSome(Response(c).err)

\* What one step of a temp-file call may do.
TempCallStep(c) ==
    /\ (~HasExec(c) /\ IsSome(calls'[c].exec)) =>
          /\ calls[c].pc = "written"
          /\ calls[c].write = Some(TRUE)
          /\ tempFiles[TempFileOf(calls[c].cmd)] = Some(OwnPayload(c))
          /\ tempFiles' = tempFiles
          /\ IsNone(calls'[c].remove)
    /\ (IsNone(calls[c].remove) /\ IsSome(calls'[c].remove)) =>
          /\ calls[c].pc = "invoked"
          /\ HasExec(c)
          /\ calls'[c].exec = calls[c].exec
          /\ calls'[c].response = Some(Ok(Exec(c).result))
    /\ (IsNone(calls[c].write) /\ calls'[c].write = Some(FALSE)) =>
          /\ tempFiles' = tempFiles
          /\ IsNone(calls'[c].exec)
          /\ IsNone(calls'[c].remove)

\* C13: within one create_spline_from_points or generate_cross_sections call
\* the temp file holds the call's payload before the backend is invoked, the
\* removal is attempted only once the invocation has produced its envelope,
\* the call returns that envelope whether or not the removal succeeded, and
\* a failed write is followed by no invocation and no removal.
C13_StepsOrdered ==
    /\ [](\A c \in Slots :
             calls[c].cmd \in TempFileCommands => TempCallOrdered(c))
    /\ [][\A c \in Slots :
             calls'[c].cmd \in TempFileCommands => TempCallStep(c)]_vars

\* A call whose backend ran and succeeded returned that envelope although
\* the removal of its temp file was refused.
C13_Witness ==
    \E c \in Slots :
        /\ calls[c].cmd \in TempFileCommands
        /\ ReturnedEnvelope(c)
        /\ calls[c].write = Some(TRUE)
        /\ calls[c].remove = Some(FALSE)
        /\ IsSome(Exec(c).spawn)
        /\ Envelope(c) = Exec(c).result
        /\ Envelope(c).success
        /\ IsSome(tempFiles[TempFileOf(calls[c].cmd)])

\* A call whose write was refused returned without invoking or removing.
C13_WitnessWriteFails ==
    \E c \in Slots :
        /\ calls[c].cmd \in TempFileCommands
        /\ Returned(c)
        /\ calls[c].write = Some(FALSE)
        /\ ~HasExec(c)
        /\ IsNone(calls[c].remove)

====
